---------------------------- MODULE Spec2Model ----------------------------
(***************************************************************************)
(* Model of scripts/feature_extraction/extract_raw_book_data.py: the       *)
(* listing scraper (scrape_books), the per-row enrichment                  *)
(* (get_book_details, enrich_book_data) and the main script that runs      *)
(* them between two CSV writes.                                            *)
(*                                                                         *)
(* An optional value (a DataFrame cell that may be NaN, an HTML attribute  *)
(* or element that may be absent) is a sequence of length at most one:     *)
(* <<>> is NaN / None, <<v>> is the value v.  Texts that the code searches *)
(* or lower-cases are sequences of one-character strings; texts it only    *)
(* stores or concatenates are strings.                                     *)
(***************************************************************************)
EXTENDS Integers, Sequences, FiniteSets, TLC

VARIABLES
    pc,             \* position of the script: "start", "scrape", "enrich", "done", "crashed", "links"
    total_pages,    \* total_pages of __main__ / pages of scrape_books
    page,           \* loop variable of scrape_books
    attempts,       \* local attempts of scrape_books / get_book_details
    success,        \* local success of scrape_books / get_book_details
    soup_object,    \* soup_object of scrape_books: the last listing page parsed, <<>> before the first
    df,             \* the table: a sequence of rows (records)
    row,            \* index of the row being enriched (0-based, as the DataFrame index)
    link_i,         \* number of download links of the current detail page already classified
    download_links, \* download_links of get_book_details while its for loop runs
    csv_initial,    \* book_data_initial.csv: <<>> before the write, <<table>> after
    csv_final,      \* book_data_final.csv: <<>> before the write, <<table>> after
    gets,           \* number of requests.get calls issued so far
    item_gets,      \* number of requests.get calls issued for the current page / row
    outcome,        \* how the most recent requests.get (and the parsing after it) ended
    failures,       \* the kinds of failure the current page / row has met so far
    fetched         \* per finished listing page: <<>> if skipped, <<n>> if it gave n rows

vars == <<pc, total_pages, page, attempts, success, soup_object, df, row, link_i,
          download_links, csv_initial, csv_final, gets, item_gets, outcome,
          failures, fetched>>

-----------------------------------------------------------------------------
(* Bounds of the model *)

MaxPages == 2       \* largest page count read from the first listing page
MaxPerPage == 2     \* most title links / attribution elements on a listing page
MaxLinks == 3       \* most links in a download container

(* Program constants *)

\* Variant: one attempt too many (the loop test written with <=).
max_attempts_more == 5 + 1

max_attempts == 5
base_url == "https://www.lectulandia.co"

NaN == <<>>
None == <<>>
Some(v) == <<v>>

-----------------------------------------------------------------------------
(* Text helpers: str.lower, the `in` substring test, str.strip, str.join *)

UpperToLower ==
    ("A" :> "a") @@ ("B" :> "b") @@ ("C" :> "c") @@ ("D" :> "d") @@ ("E" :> "e") @@
    ("F" :> "f") @@ ("G" :> "g") @@ ("H" :> "h") @@ ("I" :> "i") @@ ("J" :> "j") @@
    ("K" :> "k") @@ ("L" :> "l") @@ ("M" :> "m") @@ ("N" :> "n") @@ ("O" :> "o") @@
    ("P" :> "p") @@ ("Q" :> "q") @@ ("R" :> "r") @@ ("S" :> "s") @@ ("T" :> "t") @@
    ("U" :> "u") @@ ("V" :> "v") @@ ("W" :> "w") @@ ("X" :> "x") @@ ("Y" :> "y") @@
    ("Z" :> "z")

Lower(s) ==
    [i \in 1..Len(s) |-> IF s[i] \in DOMAIN UpperToLower THEN UpperToLower[s[i]] ELSE s[i]]

Contains(needle, hay) ==
    \E i \in 1..(Len(hay) - Len(needle) + 1) :
        SubSeq(hay, i, i + Len(needle) - 1) = needle

RECURSIVE Strip(_)
Strip(s) ==
    IF s = <<>> THEN s
    ELSE IF Head(s) = " " THEN Strip(Tail(s))
    ELSE IF s[Len(s)] = " " THEN Strip(SubSeq(s, 1, Len(s) - 1))
    ELSE s

RECURSIVE Join(_, _)
Join(sep, texts) ==
    IF texts = <<>> THEN ""
    ELSE IF Len(texts) = 1 THEN texts[1]
    ELSE texts[1] \o sep \o Join(sep, Tail(texts))

SeqsUpTo(S, n) == UNION {[1..k -> S] : k \in 0..n}

-----------------------------------------------------------------------------
(* Listing Parser *)

AUTOR == <<"a", "u", "t", "o", "r">>

\* get_author: one entry per div.subdetail whose first link's href contains
\* 'autor'; NaN when the div has no link (AttributeError); a link without href
\* makes `'autor' in None` raise TypeError, which nothing catches.
RECURSIVE get_author(_)
get_author(subdetails) ==
    IF subdetails = <<>> THEN [raised |-> "none", authors |-> <<>>]
    ELSE LET line == Head(subdetails)
             rest == get_author(Tail(subdetails))
         IN  IF line.a = None
                THEN [rest EXCEPT !.authors = <<NaN>> \o @]
             ELSE IF line.a[1].href = None
                THEN [raised |-> "TypeError", authors |-> <<>>]
             ELSE IF Contains(AUTOR, line.a[1].href[1])
                THEN [rest EXCEPT !.authors = <<Some(line.a[1].text)>> \o @]
             ELSE rest

\* get_title_and_website: the title attribute and base_url + href of every
\* a.title; base_url + None raises TypeError.
RECURSIVE get_title_and_website(_)
get_title_and_website(title_links) ==
    IF title_links = <<>> THEN [raised |-> "none", titles |-> <<>>, websites |-> <<>>]
    ELSE LET line == Head(title_links)
             rest == get_title_and_website(Tail(title_links))
         IN  IF line.href = None
                THEN [raised |-> "TypeError", titles |-> <<>>, websites |-> <<>>]
             ELSE [rest EXCEPT !.titles = <<line.title>> \o @,
                               !.websites = <<base_url \o line.href[1]>> \o @]


\* Variant: the rows of the page in reverse order.
PageFrame_reversed(soup) ==
    LET a  == get_author(soup.subdetails)
        tw == get_title_and_website(soup.title_links)
        n  == Len(tw.titles)
    IN  IF a.raised # "none" THEN [raised |-> a.raised, rows |-> <<>>]
        ELSE IF tw.raised # "none" THEN [raised |-> tw.raised, rows |-> <<>>]
        ELSE IF Len(a.authors) # n THEN [raised |-> "ValueError", rows |-> <<>>]
        ELSE [raised |-> "none",
              rows |-> [i \in 1..n |->
                            [author |-> a.authors[n + 1 - i],
                             title |-> tw.titles[n + 1 - i],
                             website |-> tw.websites[n + 1 - i]]]]

\* pd.DataFrame(data) at lines 63-69: the rows of one listing page, zipped by
\* position; columns of unequal length raise ValueError.
PageFrame(soup) ==
    LET a  == get_author(soup.subdetails)
        tw == get_title_and_website(soup.title_links)
    IN  IF a.raised # "none" THEN [raised |-> a.raised, rows |-> <<>>]
        ELSE IF tw.raised # "none" THEN [raised |-> tw.raised, rows |-> <<>>]
        ELSE IF Len(a.authors) # Len(tw.titles) THEN [raised |-> "ValueError", rows |-> <<>>]
        ELSE [raised |-> "none",
              rows |-> [i \in 1..Len(tw.titles) |->
                            [author |-> a.authors[i],
                             title |-> tw.titles[i],
                             website |-> tw.websites[i]]]]

\* Listing pages the site may answer with.
AuthorHref == <<"/", "a", "u", "t", "o", "r", "/", "x">>
GenreHref == <<"/", "g", "e", "n", "e", "r", "o", "/", "y">>

SubElems(authors) ==
    {[a |-> Some([href |-> Some(AuthorHref), text |-> n])] : n \in authors}
    \cup {[a |-> Some([href |-> Some(GenreHref), text |-> "Novela"])],
          [a |-> None],
          [a |-> Some([href |-> None, text |-> "Anon"])]}

TitleElems(books) ==
    {[title |-> Some(b), href |-> Some("/book/" \o b \o "/")] : b \in books}
    \cup {[title |-> Some("Sin enlace"), href |-> None]}

Listings(authors, books, n) ==
    [subdetails : SeqsUpTo(SubElems(authors), n),
     title_links : SeqsUpTo(TitleElems(books), n)]

Authors == {"Cervantes"}
Books == {"quijote", "ficciones"}

\* A few listing pages: no book; one book; one book and a genre link; two
\* title links for one attribution (ValueError); a title link without href
\* (TypeError).
SampleListings ==
    LET author == [a |-> Some([href |-> Some(AuthorHref), text |-> "Cervantes"])]
        genre  == [a |-> Some([href |-> Some(GenreHref), text |-> "Novela"])]
        book   == [title |-> Some("quijote"), href |-> Some("/book/quijote/")]
        other  == [title |-> Some("ficciones"), href |-> Some("/book/ficciones/")]
        bare   == [title |-> Some("Sin enlace"), href |-> None]
    IN  {[subdetails |-> <<>>, title_links |-> <<>>],
         [subdetails |-> <<author>>, title_links |-> <<book>>],
         [subdetails |-> <<author, genre>>, title_links |-> <<book>>],
         [subdetails |-> <<author>>, title_links |-> <<book, other>>],
         [subdetails |-> <<author>>, title_links |-> <<bare>>]}

-----------------------------------------------------------------------------
(* Pagination count: lines 127-129 *)

DigitValue ==
    ("0" :> 0) @@ ("1" :> 1) @@ ("2" :> 2) @@ ("3" :> 3) @@ ("4" :> 4) @@
    ("5" :> 5) @@ ("6" :> 6) @@ ("7" :> 7) @@ ("8" :> 8) @@ ("9" :> 9)

DigitText == [n \in 0..9 |-> CHOOSE c \in DOMAIN DigitValue : DigitValue[c] = n]

RemoveDots(s) == SelectSeq(s, LAMBDA c : c # ".")

RECURSIVE ParseInt(_)
\* int(text): the value, or -1 where int() raises ValueError
ParseInt(s) ==
    IF s = <<>> \/ \E i \in 1..Len(s) : s[i] \notin DOMAIN DigitValue THEN -1
    ELSE IF Len(s) = 1 THEN DigitValue[s[1]]
    ELSE 10 * ParseInt(SubSeq(s, 1, Len(s) - 1)) + DigitValue[s[Len(s)]]

\* soup.find_all('a', {"class": "page-numbers"})[-2], then int(text.replace(".", ""))
LastPage(page_numbers) ==
    IF Len(page_numbers) < 2 THEN [raised |-> "IndexError", n |-> 0]
    ELSE LET n == ParseInt(RemoveDots(page_numbers[Len(page_numbers) - 1]))
         IN  IF n < 0 THEN [raised |-> "ValueError", n |-> 0]
             ELSE [raised |-> "none", n |-> n]

PageNumberTexts ==
    {<<DigitText[n]>> : n \in 0..MaxPages} \cup {<<".", DigitText[MaxPages]>>, <<"S", "i", "g">>}

PageNumberLists == SeqsUpTo(PageNumberTexts, 2)

-----------------------------------------------------------------------------
(* Detail Parser *)

EPUB == <<"e", "p", "u", "b">>
PDF == <<"p", "d", "f">>

\* Variant: the link text matched as it is, without lower().
ClassifyLink_cased(rec, link) ==
    IF Contains(EPUB, link.text)
        THEN IF link.href = None
                THEN [raised |-> "TypeError", rec |-> rec]
                ELSE [raised |-> "none", rec |-> [rec EXCEPT !.epub = Some(base_url \o link.href[1])]]
    ELSE IF Contains(PDF, link.text)
        THEN IF link.href = None
                THEN [raised |-> "TypeError", rec |-> rec]
                ELSE [raised |-> "none", rec |-> [rec EXCEPT !.pdf = Some(base_url \o link.href[1])]]
    ELSE [raised |-> "none", rec |-> rec]

\* The body of the for loop at lines 95-99 for one link.
ClassifyLink(rec, link) ==
    IF Contains(EPUB, Lower(link.text))
        THEN IF link.href = None
                THEN [raised |-> "TypeError", rec |-> rec]
                ELSE [raised |-> "none", rec |-> [rec EXCEPT !.epub = Some(base_url \o link.href[1])]]
    ELSE IF Contains(PDF, Lower(link.text))
        THEN IF link.href = None
                THEN [raised |-> "TypeError", rec |-> rec]
                ELSE [raised |-> "none", rec |-> [rec EXCEPT !.pdf = Some(base_url \o link.href[1])]]
    ELSE [raised |-> "none", rec |-> rec]

\* The for loop at lines 95-99: links in order, stopping at the first that raises.
RECURSIVE StoreLinks(_, _)
StoreLinks(rec, links) ==
    IF links = <<>> THEN [raised |-> "none", rec |-> rec]
    ELSE LET r == ClassifyLink(rec, Head(links))
         IN  IF r.raised # "none" THEN r ELSE StoreLinks(r.rec, Tail(links))

\* Variant: the download links are stored first, the description and the genre
\* after them.
ParseDetail_linksFirst(rec, detail) ==
    IF detail.downloadContainer = None
        THEN [raised |-> "downloadContainer", rec |-> rec]
    ELSE LET r0 == StoreLinks(rec, detail.downloadContainer[1])
         IN  IF r0.raised # "none" THEN r0
             ELSE IF detail.sinopsis = None
                THEN [raised |-> "sinopsis", rec |-> r0.rec]
             ELSE LET r1 == [r0.rec EXCEPT !.description = Some(Strip(detail.sinopsis[1]))]
                  IN  IF detail.genero = None
                         THEN [raised |-> "genero", rec |-> r1]
                      ELSE [raised |-> "none",
                            rec |-> [r1 EXCEPT !.genre = Some(Join(" / ", detail.genero[1]))]]

\* Lines 88-99: the assignments to the row happen one by one, so a container
\* that is missing leaves the fields assigned before it in the table.
ParseDetail(rec, detail) ==
    IF detail.sinopsis = None
        THEN [raised |-> "sinopsis", rec |-> rec]
    ELSE LET r1 == [rec EXCEPT !.description = Some(Strip(detail.sinopsis[1]))]
         IN  IF detail.genero = None
                THEN [raised |-> "genero", rec |-> r1]
             ELSE LET r2 == [r1 EXCEPT !.genre = Some(Join(" / ", detail.genero[1]))]
                  IN  IF detail.downloadContainer = None
                         THEN [raised |-> "downloadContainer", rec |-> r2]
                      ELSE StoreLinks(r2, detail.downloadContainer[1])

\* Link texts and links a download container may hold.
DescargarEPUB == <<"D", "e", "s", "c", "a", "r", "g", "a", "r", " ", "E", "P", "U", "B">>
DescargarPDF == <<"D", "e", "s", "c", "a", "r", "g", "a", "r", " ", "P", "D", "F">>
Unrelated == <<"U", "n", "r", "e", "l", "a", "t", "e", "d">>
EpubPdf == <<"e", "P", "u", "b", "/", "p", "d", "f">>
Pd == <<"P", "D">>

LinkTexts == {DescargarEPUB, DescargarPDF, Unrelated, EpubPdf, Pd}
Hrefs == {"/d/1", "/d/2"}
Links == [text : LinkTexts, href : {None} \cup {Some(h) : h \in Hrefs}]

SampleLinkLists ==
    {<<>>,
     <<[text |-> DescargarEPUB, href |-> Some("/d/1")],
       [text |-> DescargarPDF, href |-> Some("/d/2")],
       [text |-> Unrelated, href |-> Some("/d/2")]>>,
     <<[text |-> DescargarPDF, href |-> None]>>}

\* Detail pages: without the description container; with it but without the
\* genre container; with both but without the download container; complete.
DetailPages ==
    LET sinopsis == Some(<<" ", "S", "i", "n", " ">>)
        genero   == Some(<<"Novela", "Drama">>)
    IN  {[sinopsis |-> None, genero |-> genero, downloadContainer |-> Some(<<>>)],
         [sinopsis |-> sinopsis, genero |-> None, downloadContainer |-> Some(<<>>)],
         [sinopsis |-> sinopsis, genero |-> genero, downloadContainer |-> None]}
        \cup {[sinopsis |-> sinopsis, genero |-> genero, downloadContainer |-> Some(l)] :
                l \in SampleLinkLists}

-----------------------------------------------------------------------------
(* The script *)

Init ==
    /\ pc = "start"
    /\ total_pages = 0
    /\ page = 0
    /\ attempts = 0
    /\ success = FALSE
    /\ soup_object = None
    /\ df = <<>>
    /\ row = 0
    /\ link_i = 0
    /\ download_links = <<>>
    /\ csv_initial = None
    /\ csv_final = None
    /\ gets = 0
    /\ item_gets = 0
    /\ outcome = "none"
    /\ failures = {}
    /\ fetched = <<>>

\* What requests.get may do: raise a Timeout, raise another RequestException,
\* or return a body, which BeautifulSoup parses.
Responses(bodies) ==
    {[kind |-> "Timeout"], [kind |-> "ConnectionError"]}
    \cup {[kind |-> "ok", soup |-> b] : b \in bodies}

\* Variant: the attempt counter set once, before the loop over the pages / rows.
NextItem_keep ==
    /\ attempts' = attempts
    /\ success' = FALSE
    /\ item_gets' = 0
    /\ failures' = {}

\* The locals of the retry loop as the next page or row finds them
\* (lines 45-46 and 80-81).
NextItem ==
    /\ attempts' = 0
    /\ success' = FALSE
    /\ item_gets' = 0
    /\ failures' = {}

\* An exception nothing catches ends the process: what it held in memory is
\* gone, the files it wrote and the requests it made remain.
Exited ==
    /\ pc' = "crashed"
    /\ total_pages' = 0
    /\ page' = 0
    /\ attempts' = 0
    /\ success' = FALSE
    /\ soup_object' = None
    /\ df' = <<>>
    /\ row' = 0
    /\ link_i' = 0
    /\ download_links' = <<>>

\* Lines 122-133 and 41-46: the first listing page gives the page count; any
\* error here is unhandled.
MainStart(response) ==
    LET last == IF response.kind = "ok" THEN LastPage(response.soup)
                ELSE [raised |-> response.kind, n |-> 0] IN
    /\ pc = "start"
    /\ gets' = gets + 1
    /\ outcome' = IF last.raised = "none" THEN "ok" ELSE last.raised
    /\ IF last.raised = "none"
          THEN /\ pc' = "scrape"
               /\ total_pages' = last.n
               /\ page' = 1
               /\ UNCHANGED <<attempts, success, soup_object, df, row, link_i,
                              download_links>>
          ELSE Exited
    /\ UNCHANGED <<csv_initial, csv_final, item_gets, failures, fetched>>

\* Variant: every RequestException caught, as in get_book_details.
ListingCaught_any(kind) == kind \in {"Timeout", "ConnectionError"}

\* The except clause of line 53.
ListingCaught(kind) == kind = "Timeout"

\* Lines 48-72: one iteration of the retry loop of scrape_books.  A successful
\* request ends the loop, and the rest of the for body (lines 60-72) follows it
\* with no further request: the page's rows are appended, or building the frame
\* raises.
ScrapeAttempt(response) ==
    LET frame == IF response.kind = "ok" THEN PageFrame(response.soup)
                 ELSE [raised |-> response.kind, rows |-> <<>>] IN
    /\ pc = "scrape"
    /\ page <= total_pages
    /\ attempts < 5 /\ ~success
    /\ gets' = gets + 1
    /\ outcome' = IF frame.raised = "none" THEN "ok" ELSE frame.raised
    /\ IF frame.raised = "none"
          THEN /\ soup_object' = Some(response.soup)
               /\ df' = df \o frame.rows
               /\ fetched' = Append(fetched, Some(Len(frame.rows)))
               /\ page' = page + 1
               /\ NextItem
               /\ UNCHANGED <<pc, total_pages, row, link_i, download_links>>
       ELSE IF response.kind # "ok" /\ ListingCaught(response.kind)
          THEN /\ attempts' = attempts + 1
               /\ item_gets' = item_gets + 1
               /\ failures' = failures \cup {response.kind}
               /\ UNCHANGED <<pc, total_pages, page, success, soup_object, df, row,
                              link_i, download_links, fetched>>
       ELSE /\ Exited
            /\ item_gets' = item_gets + 1
            /\ failures' = failures \cup {frame.raised}
            /\ UNCHANGED fetched
    /\ UNCHANGED <<csv_initial, csv_final>>

\* Variant: break instead of continue, so the loop over the pages ends.
SkipPage_break ==
    /\ pc = "scrape"
    /\ page <= total_pages
    /\ ~(attempts < 5 /\ ~success)
    /\ ~success
    /\ page' = total_pages + 1
    /\ fetched' = Append(fetched, None)
    /\ NextItem
    /\ UNCHANGED <<pc, total_pages, soup_object, df, row, link_i, download_links,
                   csv_initial, csv_final, gets, outcome>>

\* Lines 56-61: the loop ended without a successful request; the page is skipped.
SkipPage ==
    /\ pc = "scrape"
    /\ page <= total_pages
    /\ ~(attempts < 5 /\ ~success)
    /\ ~success
    /\ page' = page + 1
    /\ fetched' = Append(fetched, None)
    /\ NextItem
    /\ UNCHANGED <<pc, total_pages, soup_object, df, row, link_i, download_links,
                   csv_initial, csv_final, gets, outcome>>

\* Lines 147-148: the placeholder columns.
Placeholders(r) ==
    [author |-> r.author, title |-> r.title, website |-> r.website,
     genre |-> NaN, description |-> NaN, epub |-> NaN, pdf |-> NaN]

\* Variant: the placeholder columns added before the first write.
SaveInitial_late ==
    /\ pc = "scrape"
    /\ page > total_pages
    /\ df' = [i \in 1..Len(df) |-> Placeholders(df[i])]
    /\ csv_initial' = Some(df')
    /\ pc' = "enrich"
    /\ row' = 0
    /\ soup_object' = None
    /\ NextItem
    /\ UNCHANGED <<total_pages, page, link_i, download_links, csv_final,
                   gets, outcome, fetched>>

\* Lines 74-75 and 135-151: scrape_books returns, the table is written, the
\* placeholder columns are added and enrichment starts at the first row.
SaveInitial ==
    /\ pc = "scrape"
    /\ page > total_pages
    /\ csv_initial' = Some(df)
    /\ df' = [i \in 1..Len(df) |-> Placeholders(df[i])]
    /\ pc' = "enrich"
    /\ row' = 0
    /\ soup_object' = None
    /\ NextItem
    /\ UNCHANGED <<total_pages, page, link_i, download_links, csv_final,
                   gets, outcome, fetched>>

\* The except clauses of lines 102 and 105: RequestException (of which Timeout
\* and ConnectionError are subclasses) and AttributeError (a missing container).
DetailCaught(kind) ==
    kind \in {"Timeout", "ConnectionError", "sinopsis", "genero", "downloadContainer"}

\* Variant: df[column] = value, which assigns the whole column.
SetRow_column(table, label, rec) ==
    [i \in 1..Len(table) |->
        [table[i] EXCEPT !.description = rec.description, !.genre = rec.genre,
                         !.epub = rec.epub, !.pdf = rec.pdf]]

\* df.loc[row, column] = value at lines 88-99: the row labelled row is the
\* (row + 1)-th of the table.
SetRow(table, label, rec) == [table EXCEPT ![label + 1] = rec]

\* Variant: the description emptied before the request is made.
DetailResult_cleared(response) ==
    IF response.kind = "ok"
        THEN ParseDetail([df[row + 1] EXCEPT !.description = Some(<<>>)], response.soup)
    ELSE [raised |-> response.kind, rec |-> [df[row + 1] EXCEPT !.description = Some(<<>>)]]

\* What one iteration of the loop of get_book_details meets: the error of the
\* request, or else how parsing the page ends.
DetailResult(response) ==
    IF response.kind = "ok" THEN ParseDetail(df[row + 1], response.soup)
    ELSE [raised |-> response.kind, rec |-> df[row + 1]]

\* Lines 83-110: one iteration of the retry loop of get_book_details.
DetailAttempt(response) ==
    LET r == DetailResult(response) IN
    /\ pc = "enrich"
    /\ row < Len(df)
    /\ attempts < max_attempts /\ ~success
    /\ gets' = gets + 1
    /\ item_gets' = item_gets + 1
    /\ outcome' = IF r.raised = "none" THEN "ok" ELSE r.raised
    /\ failures' = IF r.raised = "none" THEN failures ELSE failures \cup {r.raised}
    /\ IF r.raised = "none"
          THEN /\ df' = SetRow(df, row, r.rec)
               /\ success' = TRUE
               /\ UNCHANGED <<pc, total_pages, page, attempts, soup_object, row, link_i,
                              download_links>>
       ELSE IF DetailCaught(r.raised)
          THEN /\ df' = SetRow(df, row, r.rec)
               /\ attempts' = attempts + 1
               /\ UNCHANGED <<pc, total_pages, page, success, soup_object, row, link_i,
                              download_links>>
       ELSE Exited
    /\ UNCHANGED <<csv_initial, csv_final, fetched>>

\* Lines 115-117: get_book_details returns and enrich_book_data moves on.
DetailReturn ==
    /\ pc = "enrich"
    /\ row < Len(df)
    /\ ~(attempts < max_attempts /\ ~success)
    /\ row' = row + 1
    /\ NextItem
    /\ UNCHANGED <<pc, total_pages, page, soup_object, df, link_i, download_links,
                   csv_initial, csv_final, gets, outcome, fetched>>

\* Lines 153-156: the second write.
SaveFinal ==
    /\ pc = "enrich"
    /\ row >= Len(df)
    /\ csv_final' = Some(df)
    /\ pc' = "done"
    /\ UNCHANGED <<total_pages, page, attempts, success, soup_object, df, row, link_i,
                   download_links, csv_initial, gets, item_gets, outcome, failures,
                   fetched>>

-----------------------------------------------------------------------------
(* The whole run, on a site whose listing pages hold at most one book *)

Start == \E response \in Responses(PageNumberLists) : MainStart(response)

Scrape == \E response \in Responses(SampleListings) : ScrapeAttempt(response)

Detail == \E response \in Responses(DetailPages) : DetailAttempt(response)

Next ==
    \/ Start
    \/ Scrape
    \/ SkipPage
    \/ SaveInitial
    \/ Detail
    \/ DetailReturn
    \/ SaveFinal

Spec == Init /\ [][Next]_vars

FairSpec == Spec /\ WF_vars(Next)

-----------------------------------------------------------------------------
(* scrape_books alone, on listing pages of up to MaxPerPage books *)

ScrapeAny ==
    \E response \in Responses(Listings(Authors, Books, MaxPerPage)) :
        ScrapeAttempt(response)

NextScrape ==
    \/ Start
    \/ ScrapeAny
    \/ SkipPage
    \/ SaveInitial

SpecScrape == Init /\ [][NextScrape]_vars

-----------------------------------------------------------------------------
(* The download-link loop alone, link by link, on every list of links *)

InitLinks ==
    /\ pc = "links"
    /\ total_pages = 1
    /\ page = 2
    /\ attempts = 0
    /\ success = FALSE
    /\ soup_object = None
    /\ df = <<[author |-> Some("Cervantes"), title |-> Some("quijote"),
               website |-> base_url \o "/book/quijote/",
               genre |-> Some("Novela / Drama"), description |-> Some(<<"S", "i", "n">>),
               epub |-> NaN, pdf |-> NaN]>>
    /\ row = 0
    /\ link_i = 0
    /\ download_links \in SeqsUpTo(Links, MaxLinks)
    /\ csv_initial = None
    /\ csv_final = None
    /\ gets = 3
    /\ item_gets = 1
    /\ outcome = "none"
    /\ failures = {}
    /\ fetched = <<>>

\* One iteration of the for loop at lines 95-99.
LinkStep ==
    LET r == ClassifyLink(df[row + 1], download_links[link_i + 1]) IN
    /\ pc = "links"
    /\ link_i < Len(download_links)
    /\ IF r.raised = "none"
          THEN /\ df' = SetRow(df, row, r.rec)
               /\ link_i' = link_i + 1
               /\ UNCHANGED <<pc, total_pages, page, attempts, success, soup_object, row,
                              download_links, outcome>>
          ELSE /\ Exited
               /\ outcome' = r.raised
    /\ UNCHANGED <<csv_initial, csv_final, gets, item_gets, failures, fetched>>

NextLinks == LinkStep

SpecLinks == InitLinks /\ [][NextLinks]_vars

-----------------------------------------------------------------------------
(* Properties *)

Optional(r) == <<r.description, r.genre, r.epub, r.pdf>>
Core(r) == <<r.author, r.title, r.website>>

\* Row i as enrichment found it: the row written to the first CSV, with its
\* four placeholder cells.
AsFound(i) == Placeholders(csv_initial[1][i])

\* The retry loop of get_book_details has used up its attempts for the row.
Exhausted == pc = "enrich" /\ row < Len(df) /\ attempts = 5 /\ ~success

\* A step that issues a request.
Get == gets' = gets + 1

\* C1: a listing page whose request times out 5 times in a row adds no row,
\* does not end the run, and the loop goes on to the next page, whose rows are
\* appended when its request succeeds.
C1_TimedOutPageSkipped ==
    [][/\ (pc = "scrape" /\ Get /\ outcome' = "Timeout") => (pc' = "scrape" /\ df' = df)
       /\ (pc = "scrape" /\ page <= total_pages /\ attempts = 5 /\ failures = {"Timeout"})
             => /\ pc' = "scrape"
                /\ df' = df
                /\ page' = page + 1
                /\ attempts' = 0 /\ ~success'
                /\ fetched' = Append(fetched, None)
       /\ (/\ pc = "scrape" /\ Get /\ outcome' = "ok"
           /\ fetched # <<>> /\ fetched[Len(fetched)] = None)
             => /\ pc' = "scrape"
                /\ page' = page + 1
                /\ df' = df \o PageFrame(soup_object'[1]).rows
                /\ Len(df') = Len(df) + Len(soup_object'[1].title_links)]_vars

C1_Witness ==
    /\ pc = "scrape"
    /\ Len(fetched) = 2
    /\ fetched[1] = None
    /\ fetched[2] = Some(1)
    /\ Len(df) = 1

\* C2: when the request for a row's detail page times out 5 times in a row,
\* the row's description, genre, epub and pdf are what they were before the
\* call, and the row is still in the table.
C2_TimedOutRowUntouched ==
    (Exhausted /\ failures = {"Timeout"})
        => /\ Len(df) = Len(csv_initial[1])
           /\ df[row + 1] = AsFound(row + 1)
           /\ Optional(df[row + 1]) = <<NaN, NaN, NaN, NaN>>

C2_Witness ==
    /\ Exhausted /\ failures = {"Timeout"}
    /\ row = 1
    /\ df[1].description # NaN

\* C3 as stated: after 5 failed attempts, each a network error or a missing
\* container, all four optional fields of the row are what they were before
\* the call.
C3_AllFieldsKept ==
    Exhausted => Optional(df[row + 1]) = Optional(AsFound(row + 1))

\* C3, amended: after 5 failed attempts, each a network error or a missing
\* container, epub and pdf are what they were before the call; description is
\* too unless an attempt found the genre or the download container missing,
\* and genre is too unless an attempt found the download container missing;
\* enrichment then goes on to the next row.
C3_FieldsKeptUpToFailure ==
    /\ [](Exhausted =>
            /\ failures \subseteq {"Timeout", "ConnectionError", "sinopsis", "genero",
                                  "downloadContainer"}
            /\ df[row + 1].epub = AsFound(row + 1).epub
            /\ df[row + 1].pdf = AsFound(row + 1).pdf
            /\ (df[row + 1].description = AsFound(row + 1).description
                    <=> failures \cap {"genero", "downloadContainer"} = {})
            /\ (df[row + 1].genre = AsFound(row + 1).genre
                    <=> "downloadContainer" \notin failures))
    /\ [][Exhausted => (pc' = "enrich" /\ row' = row + 1 /\ df' = df)]_vars

C3_Witness ==
    /\ Exhausted
    /\ failures = {"ConnectionError", "genero"}
    /\ df[row + 1].description # NaN
    /\ df[row + 1].genre = NaN

\* C4: a listing request is retried on a timeout only, and any other network
\* error ends the run; a detail request is retried on every network error,
\* each counting as one attempt.
C4_RetryPolicy ==
    [][/\ (pc = "scrape" /\ Get /\ outcome' = "Timeout")
             => (pc' = "scrape" /\ page' = page /\ attempts' = attempts + 1 /\ ~success')
       /\ (pc = "scrape" /\ Get /\ outcome' = "ConnectionError") => pc' = "crashed"
       /\ (pc = "enrich" /\ Get /\ outcome' \in {"Timeout", "ConnectionError"})
             => (pc' = "enrich" /\ row' = row /\ attempts' = attempts + 1 /\ ~success')
       /\ pc # "crashed"]_vars

C4_Witness ==
    /\ pc = "enrich"
    /\ failures = {"ConnectionError"}
    /\ attempts = 2
    /\ success

-----------------------------------------------------------------------------
(* Download links *)

HasEpub == {DescargarEPUB, EpubPdf}     \* the texts of LinkTexts that contain "epub", in any case
HasPdf == {DescargarPDF, EpubPdf}       \* the texts of LinkTexts that contain "pdf", in any case

Url(link) == "https://www.lectulandia.co" \o link.href[1]

\* C5: a link that has an href is stored in epub iff its text contains "epub"
\* in any case, in pdf iff it contains "pdf" and not "epub", and otherwise no
\* field changes; what is stored is the base URL followed by the href.  Of the
\* links "Descargar EPUB", "Descargar PDF", "Unrelated", the first sets epub,
\* the second pdf and the third nothing.
C5_LinkClassification ==
    /\ [][(pc = "links" /\ link_i < Len(download_links)) =>
            LET link == download_links[link_i + 1]
                old == df[row + 1]
            IN  /\ (link.text \in HasEpub /\ link.href # None)
                        => df' = <<[old EXCEPT !.epub = Some(Url(link))]>>
                /\ (link.text \in HasPdf \ HasEpub /\ link.href # None)
                        => df' = <<[old EXCEPT !.pdf = Some(Url(link))]>>
                /\ link.text \notin HasEpub \cup HasPdf => df' = df]_vars
    /\ []((/\ pc = "links"
           /\ Len(download_links) = 3
           /\ download_links[1].text = DescargarEPUB /\ download_links[1].href # None
           /\ download_links[2].text = DescargarPDF /\ download_links[2].href # None
           /\ download_links[3].text = Unrelated)
          => /\ link_i = 0 => (df[1].epub = NaN /\ df[1].pdf = NaN)
             /\ link_i = 1 => (df[1].epub = Some(Url(download_links[1])) /\ df[1].pdf = NaN)
             /\ link_i >= 2 => /\ df[1].epub = Some(Url(download_links[1]))
                               /\ df[1].pdf = Some(Url(download_links[2])))

C5_Witness ==
    /\ pc = "links"
    /\ link_i = 3
    /\ download_links[1].text = DescargarEPUB
    /\ download_links[2].text = DescargarPDF
    /\ download_links[3].text = Unrelated
    /\ df[1].epub = Some("https://www.lectulandia.co/d/2")
    /\ df[1].pdf = Some("https://www.lectulandia.co/d/1")

-----------------------------------------------------------------------------
(* The listing table *)

\* The attribution elements of a listing page that stand for a book's author:
\* those whose link points to an author, and those with no link at all.
Attributions(soup) ==
    SelectSeq(soup.subdetails,
              LAMBDA e : e.a = None \/ (e.a[1].href # None /\ Contains(AUTOR, e.a[1].href[1])))

\* The rows of a page with as many attributions as title links, book by book.
Triples(soup) ==
    [i \in 1..Len(soup.title_links) |->
        [author |-> IF Attributions(soup)[i].a = None THEN NaN
                    ELSE Some(Attributions(soup)[i].a[1].text),
         title |-> soup.title_links[i].title,
         website |-> "https://www.lectulandia.co" \o soup.title_links[i].href[1]]]

RECURSIVE RowsOf(_)
\* The number of rows the finished pages have given.
RowsOf(f) == IF f = <<>> THEN 0
             ELSE (IF Head(f) = None THEN 0 ELSE Head(f)[1]) + RowsOf(Tail(f))

\* C6: the table of scrape_books is the rows of the pages fetched within 5
\* attempts, page after page in ascending page number and in the order of the
\* page; a skipped page gives none, and a page of N title links with N
\* attributions gives N rows, each with its own author, title and website.
C6_TableIsConcatenation ==
    /\ [](pc = "scrape" => /\ Len(fetched) = page - 1
                           /\ Len(df) = RowsOf(fetched))
    /\ [][pc = "scrape" /\ pc' = "scrape" /\ page' # page =>
            /\ page' = page + 1
            /\ fetched'[page] = None => (df' = df /\ attempts = 5)
            /\ fetched'[page] # None =>
                  /\ Get /\ attempts < 5
                  /\ Len(Attributions(soup_object'[1])) = Len(soup_object'[1].title_links)
                  /\ fetched'[page] = Some(Len(soup_object'[1].title_links))
                  /\ df' = df \o Triples(soup_object'[1])]_vars
    /\ [][pc = "scrape" /\ pc' = "enrich" => csv_initial' = Some(df)]_vars

C6_Witness ==
    /\ pc = "scrape"
    /\ fetched = <<Some(2), None, Some(2)>> \/ fetched = <<Some(2), Some(2)>>
    /\ Len(df) = 4
    /\ df[1].author = NaN /\ df[2].author # NaN
    /\ df[3].title # df[4].title

-----------------------------------------------------------------------------
(* The run as a whole *)

\* C7: a run that reaches its end writes exactly two CSV files: the first
\* after the last listing request and before the first detail request, with
\* the listing fields only; the second after the last detail request, with
\* the enriched table.
C7_TwoWrites ==
    /\ [](/\ pc = "done" => (csv_initial # None /\ csv_final = Some(df))
          /\ csv_final # None => (pc = "done" /\ csv_initial # None)
          /\ pc = "enrich" => csv_initial # None
          /\ csv_initial # None =>
                \A i \in 1..Len(csv_initial[1]) :
                    DOMAIN csv_initial[1][i] = {"author", "title", "website"})
    /\ [][/\ (Get /\ pc \in {"start", "scrape"}) => (csv_initial = None /\ csv_final = None)
          /\ (Get /\ pc \notin {"start", "scrape"})
                => (pc = "enrich" /\ csv_initial # None /\ csv_final = None)
          /\ csv_initial' # csv_initial
                => (csv_initial = None /\ csv_initial' = Some(df) /\ ~Get /\ csv_final' = None)
          /\ csv_final' # csv_final
                => (csv_final = None /\ csv_final' = Some(df) /\ ~Get /\ pc' = "done")
          /\ pc = "done" => FALSE]_vars

C7_Witness ==
    /\ pc = "done"
    /\ Len(df) = 2
    /\ df[1].epub # NaN
    /\ df[2].description = NaN
    /\ gets > 3

\* C8: enrichment keeps the rows of the table: their number, their order and
\* every row's author, title and website stay as they were when it started,
\* and handling a row changes no other row.
C8_RowsKept ==
    /\ [](pc \in {"enrich", "done"} =>
            /\ Len(df) = Len(csv_initial[1])
            /\ \A i \in 1..Len(df) : Core(df[i]) = Core(csv_initial[1][i]))
    /\ [][pc = "enrich" /\ pc' # "crashed" =>
            \A i \in 1..Len(df) : i # row + 1 => df'[i] = df[i]]_vars

C8_Witness ==
    /\ pc = "enrich"
    /\ Len(df) = 2
    /\ row = 1
    /\ df[1].genre # NaN /\ df[1].epub = NaN
    /\ df[2].description # NaN
    /\ attempts = 3

\* C9: every page and every row starts with an attempt counter of 0, gets at
\* most 5 requests, gets none after one has succeeded, and ends either with a
\* successful request or with 5 failed ones.
C9_RetryCounter ==
    /\ [](/\ item_gets <= 5 /\ attempts <= 5
          /\ pc \in {"scrape", "enrich"} => item_gets = attempts + (IF success THEN 1 ELSE 0))
    /\ [][/\ (pc' \in {"scrape", "enrich"} /\ (page' # page \/ row' # row \/ pc' # pc))
                => (attempts' = 0 /\ ~success' /\ item_gets' = 0)
          /\ success => ~Get
          /\ (pc = "scrape" /\ pc' = "scrape" /\ page' # page)
                => ((Get /\ outcome' = "ok" /\ attempts < 5) \/ (~Get /\ attempts = 5))
          /\ (pc = "enrich" /\ pc' = "enrich" /\ row' # row)
                => (~Get /\ ((success /\ attempts < 5) \/ (~success /\ attempts = 5)))]_vars

C9_Witness ==
    /\ pc = "enrich"
    /\ row = 1
    /\ success
    /\ attempts = 4
    /\ item_gets = 5
    /\ fetched = <<None, Some(1), Some(1)>> \/ fetched = <<Some(1), Some(1)>>

Terminated == pc \in {"done", "crashed"}

\* C10: every run ends, by the second write or by an unhandled error, and
\* issues at most 1 + 5 * N + 5 * R requests for N pages and R rows.
C10_Termination ==
    /\ <>Terminated
    /\ [](pc # "crashed" => gets <= 1 + 5 * total_pages + 5 * Len(df))
    /\ [][pc' = "crashed" => gets' <= 1 + 5 * total_pages + 5 * Len(df)]_vars

C10_Witness ==
    /\ pc = "done"
    /\ total_pages = 2
    /\ Len(df) = 2
    /\ gets = 21

=============================================================================
